---- MODULE Spec2Model ----
(***************************************************************************)
(* The tagger plugin of hyde (hyde/ext/plugins/tagger.py): the Tag entity, *)
(* the scan of the resources' tag declarations that builds the registry,   *)
(* the per-tag walkers added to Node, the merge of the configured tag      *)
(* metadata and the generation of the archive files.                       *)
(*                                                                         *)
(* Strings that the code takes apart (tag names, the '+'-joined query of   *)
(* walk_resources_tagged_with) are sequences of one-character strings.     *)
(* Tag objects live in a heap and are referred to by their index, so that  *)
(* two Tag objects of the same name are two objects, as in Python, where   *)
(* neither Tag nor Expando defines __eq__.                                 *)
(***************************************************************************)
EXTENDS Naturals, Sequences, FiniteSets, TLC

VARIABLES
    pc,             \* position in begin_site
    error,          \* the exception begin_site ended with, "none" if none
    sorter,         \* site.config.tagger.sorter, NoSorter when not configured
    heap,           \* the Tag objects created so far, by creation order
    tags,           \* the registry of begin_site: key -> index of a Tag in heap
    methods,        \* walk_resources_tagged_with_<key> on Node: key -> bound Tag
    base_method,    \* Node.walk_resources_tagged_with has been added
    meta_tags,      \* per enumerated resource: its meta.tags
    res_tags,       \* per enumerated resource: its tags attribute (Tag indices)
    new_tag_list,   \* the local of _process_tags_in_resource
    tagger,         \* site.tagger, the published registry
    archive_config, \* the archive specs _generate_archives still has to handle
    files,          \* the archive files written
    walked          \* the outcome of the latest walker call

vars == <<pc, error, sorter, heap, tags, methods, base_method, meta_tags,
          res_tags, new_tag_list, tagger, archive_config, files, walked>>

-----------------------------------------------------------------------------
(* Bounds of the model *)

\* resources the walker yields
MaxItems == 2
\* tag declarations processed in one build
MaxDecls == 2
\* relation names in the list of a structured declaration
MaxList == 2
\* relations in the mapping of a structured declaration
MaxMap == 1
\* tag names joined in one query
MaxQuery == 2
\* archive specs in the configuration
MaxArchives == 1
\* entries of site.config.tagger.tags
MaxMeta == 1
\* Tag objects and relation edges made through the Tag class alone
MaxTags == 2
MaxEdges == 2

\* The names items and configuration use for tags and relations. None
\* contains the query separator '+'.
Names == {<<"a">>, <<"b">>, <<"c">>}

\* A name no resource declares, for the config entries without a tag.
Unknown == <<"z">>

-----------------------------------------------------------------------------
(* Helpers *)

Range(s) == {s[i] : i \in 1..Len(s)}

SeqsUpTo(S, n) == UNION {[1..k -> S] : k \in 0..n}

\* The orders a dict of the given keys can be iterated in.
Orders(S) == {s \in [1..Cardinality(S) -> S] : Range(s) = S}

\* d[k] = v
Put(d, k, v) == [x \in (DOMAIN d) \cup {k} |-> IF x = k THEN v ELSE d[x]]

Empty == <<>>

-----------------------------------------------------------------------------
(* class Tag *)

Tag(name) ==
    [name |-> name, resources |-> <<>>,
     in_relations |-> Empty, out_relations |-> Empty, meta |-> Empty]

\* __create_relation without the membership test of line 46
create_relation_always(self, relation_name, relations) ==
    LET r1 == IF relation_name \notin DOMAIN relations
                THEN Put(relations, relation_name, <<>>)
                ELSE relations
    IN  Put(r1, relation_name, Append(r1[relation_name], self))

\* Tag.__create_relation on the relations dict `relations`: the result dict.
create_relation(self, relation_name, relations) ==
    LET r1 == IF relation_name \notin DOMAIN relations
                THEN Put(relations, relation_name, <<>>)
                ELSE relations
    IN  IF self \notin Range(r1[relation_name])
          THEN Put(r1, relation_name, Append(r1[relation_name], self))
          ELSE r1

\* Tag.relate_to_tag: the heap after self.relate_to_tag(tag, relation_name).
relate_to_tag(h, self, tag, relation_name) ==
    LET h1 == [h EXCEPT ![self].out_relations =
                   create_relation(tag, relation_name, h[self].out_relations)]
    IN  [h1 EXCEPT ![tag].in_relations =
                   create_relation(self, relation_name, h1[tag].in_relations)]

\* Tag.is_leaf
is_leaf(h, self) == DOMAIN h[self].in_relations = {}

\* Tag.__str__
TagStr(h, self) == h[self].name

-----------------------------------------------------------------------------
(* get_tagger_sort_method *)

NoSorter == "(unset)"

\* The sorter names a configuration may carry.
Sorters == {"kind", "bogus"}

\* The enumeration methods of site.content (walk_resources_sorted_by_kind is
\* added by the sorter plugin for the sorter named kind).
ContentMethods == {"walk_resources", "walk_resources_sorted_by_kind"}

get_tagger_sort_method(s) ==
    LET walker == IF s = NoSorter THEN "walk_resources"
                  ELSE "walk_resources" \o "_sorted_by_" \o s
    IN  IF walker \in ContentMethods
          THEN [outcome |-> "ok", walker |-> walker]
          \* line 70 evaluates self.template in a module-level function
          ELSE [outcome |-> "NameError", walker |-> walker]

-----------------------------------------------------------------------------
(* Tag declarations of a resource *)

\* a plain tag name
Plain(n) == [str |-> TRUE, name |-> n, entries |-> Empty]

\* the value of a structured declaration: a list of relation names
ListOf(l) == [list |-> TRUE, items |-> l, map |-> Empty]
\* ... or a mapping relation name -> target tag name
MapOf(m) == [list |-> FALSE, items |-> <<>>, map |-> m]

\* a structured declaration: a mapping key -> value
Struct(e) == [str |-> FALSE, name |-> <<>>, entries |-> e]

Maps == UNION {[D -> Names] : D \in {D \in SUBSET Names : Cardinality(D) <= MaxMap}}

Values == {ListOf(l) : l \in SeqsUpTo(Names, MaxList)} \cup {MapOf(m) : m \in Maps}

Decls ==
    {Plain(n) : n \in Names}
    \cup {Struct(Put(Empty, n, v)) : n \in Names, v \in Values}
    \cup {Struct([n \in {<<"a">>, <<"b">>} |-> ListOf(<<>>)])}

\* _parse_tag_relations with tmp[relation] = tagname in line 224
parse_tag_relations_to_tag(d, key) ==
    LET relations == d.entries[key]
    IN  IF Cardinality(DOMAIN d.entries \ {key}) > 0
          THEN [outcome |-> "InvalidTagDeclaration", tagname |-> key,
                relations |-> Empty]
          ELSE [outcome |-> "ok", tagname |-> key,
                relations |-> IF relations.list
                                THEN [r \in Range(relations.items) |-> key]
                                ELSE relations.map]

\* _parse_tag_relations without the check of line 216
parse_tag_relations_unchecked(d, key) ==
    LET relations == d.entries[key]
    IN  [outcome |-> "ok", tagname |-> key,
         relations |-> IF relations.list
                         THEN [r \in Range(relations.items) |-> r]
                         ELSE relations.map]

\* TaggerPlugin._parse_tag_relations, on a structured declaration; popitem
\* takes the entry `key`.
parse_tag_relations(d, key) ==
    LET tag_with_relations == d.entries
        relations == tag_with_relations[key]
    IN  IF Cardinality(DOMAIN tag_with_relations \ {key}) > 0
          THEN [outcome |-> "InvalidTagDeclaration", tagname |-> key,
                relations |-> Empty]
          ELSE [outcome |-> "ok", tagname |-> key,
                relations |-> IF relations.list
                                THEN [r \in Range(relations.items) |-> r]
                                ELSE relations.map]

-----------------------------------------------------------------------------
(* TaggerPlugin: the scan *)

\* TaggerPlugin._create_tag_relations; st holds the heap, the registry and
\* the walkers, ord is the order relations.keys() comes in.
RECURSIVE create_tag_relations(_, _, _, _)
create_tag_relations(st, tag, relations, ord) ==
    IF ord = <<>> THEN st
    ELSE
      LET relation_name == Head(ord)
          related_tag_name == relations[relation_name]
          absent == related_tag_name \notin DOMAIN st.tags
          h1 == IF absent THEN Append(st.heap, Tag(related_tag_name))
                ELSE st.heap
          related_tag == IF absent THEN Len(h1) ELSE st.tags[related_tag_name]
          t1 == IF absent THEN Put(st.tags, relation_name, related_tag)
                ELSE st.tags
          m1 == Put(st.methods, related_tag_name, tag)
          h2 == relate_to_tag(h1, tag, related_tag, relation_name)
      IN  create_tag_relations([heap |-> h2, tags |-> t1, methods |-> m1],
                               tag, relations, Tail(ord))

\* The keys popitem may take from a declaration.
KeysOf(d) == IF d.str THEN {d.name} ELSE DOMAIN d.entries

\* line 158-161: the tag name and the relations of one declaration
read_declaration(d, key) ==
    IF d.str
      THEN [outcome |-> "ok", tagname |-> d.name, relations |-> Empty]
      ELSE parse_tag_relations(d, key)

\* One round of the loop of TaggerPlugin._process_tags_in_resource (lines
\* 157-179) on the declaration d of the resource; st holds the heap, the
\* registry, the walkers, resource.tags (rtags) and new_tag_list.
process_tag(st, resource, d, key, ord) ==
    LET p == read_declaration(d, key)
        tagname == p.tagname
        isnew == tagname \notin DOMAIN st.tags
        h0 == IF isnew THEN Append(st.heap, Tag(tagname)) ELSE st.heap
        t0 == IF isnew THEN Put(st.tags, tagname, Len(h0)) ELSE st.tags
        h1 == [h0 EXCEPT ![t0[tagname]].resources = Append(@, resource)]
        m0 == IF isnew THEN Put(st.methods, tagname, t0[tagname])
              ELSE st.methods
        s1 == [heap |-> h1, tags |-> t0, methods |-> m0]
        s2 == IF DOMAIN p.relations # {}
                THEN create_tag_relations(s1, t0[tagname], p.relations, ord)
                ELSE s1
    IN  IF p.outcome # "ok"
          THEN [outcome |-> p.outcome, heap |-> st.heap, tags |-> st.tags,
                methods |-> st.methods, rtags |-> st.rtags,
                new_tag_list |-> st.new_tag_list]
          ELSE [outcome |-> "ok", heap |-> s2.heap, tags |-> s2.tags,
                methods |-> s2.methods,
                rtags |-> Append(st.rtags, s2.tags[tagname]),
                new_tag_list |-> Append(st.new_tag_list, tagname)]

\* The orders the relations of a declaration can be iterated in.
RelationOrders(d, key) == Orders(DOMAIN read_declaration(d, key).relations)

\* The resource _process_tags_in_resource is working on.
resource == Len(meta_tags)

\* The scan's state as process_tag takes it.
ScanState ==
    [heap |-> heap, tags |-> tags, methods |-> methods,
     rtags |-> IF resource = 0 THEN <<>> ELSE res_tags[resource],
     new_tag_list |-> new_tag_list]

\* Declarations processed so far: each appended one resource to one Tag.
RECURSIVE Appended(_)
Appended(h) == IF h = <<>> THEN 0 ELSE Len(Head(h).resources) + Appended(Tail(h))

-----------------------------------------------------------------------------
(* walk_resources_tagged_with *)

\* unicode.split('+')
RECURSIVE split_from(_, _, _)
split_from(s, i, part) ==
    IF i > Len(s) THEN <<part>>
    ELSE IF s[i] = "+" THEN <<part>> \o split_from(s, i + 1, <<>>)
    ELSE split_from(s, i + 1, Append(part, s[i]))

split(s) == split_from(s, 1, <<>>)

\* '+'.join(names)
RECURSIVE join(_)
join(names) ==
    IF names = <<>> THEN <<>>
    ELSE IF Len(names) = 1 THEN names[1]
    ELSE names[1] \o <<"+">> \o join(Tail(names))

\* line 82 with an intersection test in place of the subset test
matches_any(tagset, taglist) == tagset \cap taglist # {}

\* line 82
matches(tagset, taglist) == tagset \subseteq taglist

\* walk_resources_tagged_with(node, tag) with unicode(tag) = s, run to the
\* end: the outcome and the resources yielded, in the walker's order.
walk_resources_tagged_with(s) ==
    LET tagset == Range(split(s))
        w == get_tagger_sort_method(sorter)
        yields(i) == meta_tags[i].has /\ matches(tagset, Range(meta_tags[i].tags))
    IN  IF w.outcome # "ok"
          THEN [outcome |-> w.outcome, result |-> <<>>]
          ELSE [outcome |-> "ok",
                result |-> SelectSeq([i \in 1..Len(meta_tags) |-> i], yields)]

\* Node.walk_resources_tagged_with_<key>(): the partial bound to a Tag
walk_method(key) == walk_resources_tagged_with(TagStr(heap, methods[key]))

-----------------------------------------------------------------------------
(* TaggerPlugin: tag metadata and archives *)

MetaKeys == {"name", "resources", "color"}

MetaValue(k) ==
    CASE k = "name" -> [s |-> "", l |-> Unknown]
      [] k = "resources" -> [s |-> "", l |-> <<0>>]
      [] OTHER -> [s |-> "red", l |-> <<>>]

\* the metadata a config entry may carry
MetaDicts == {[k \in D |-> MetaValue(k)] : D \in {{"color"}, MetaKeys}}

TagMetas ==
    UNION {[D -> MetaDicts] :
             D \in {D \in SUBSET (Names \cup {Unknown}) : Cardinality(D) <= MaxMeta}}

\* Expando.update(d) on a Tag: setattr for every key of d
update(t, d) ==
    [name |-> IF "name" \in DOMAIN d THEN d["name"].l ELSE t.name,
     resources |-> IF "resources" \in DOMAIN d THEN d["resources"].l
                   ELSE t.resources,
     in_relations |-> t.in_relations,
     out_relations |-> t.out_relations,
     meta |-> [k \in (DOMAIN t.meta) \cup ((DOMAIN d) \ {"name", "resources"}) |->
                 IF k \in DOMAIN d THEN d[k] ELSE t.meta[k]]]

\* lines 137-141 left out
strip_nothing(meta) == meta

\* lines 137-141: the entry without the keys resources and name
strip_meta(meta) == [k \in (DOMAIN meta) \ {"resources", "name"} |-> meta[k]]

\* TaggerPlugin._process_tag_metadata: the heap after the loop over
\* tag_meta, taken in the order ord.
RECURSIVE process_tag_metadata(_, _, _, _)
process_tag_metadata(h, reg, tag_meta, ord) ==
    IF ord = <<>> THEN h
    ELSE
      LET tagname == Head(ord)
          meta == strip_meta(tag_meta[tagname])
          h1 == IF tagname \in DOMAIN reg
                  THEN [h EXCEPT ![reg[tagname]] = update(@, meta)]
                  ELSE h
      IN  process_tag_metadata(h1, reg, tag_meta, Tail(ord))

Unset == "(unset)"

\* the archive specs a configuration may carry
ArchiveSpecs ==
    {[template |-> TRUE, target |-> Unset, extension |-> Unset],
     [template |-> TRUE, target |-> "blog/tags", extension |-> "txt"],
     [template |-> FALSE, target |-> "blog/tags", extension |-> Unset]}

\* config.get(key, default)
get(value, default) == IF value = Unset THEN default ELSE value

\* lines 277-289: the files one archive spec gets written, one per key of
\* site.tagger.tags
archive_files(config, published) ==
    {[folder |-> get(config.target, "tags"), tag |-> tagname,
      extension |-> get(config.extension, "html")] : tagname \in DOMAIN published}

-----------------------------------------------------------------------------
(* The build *)

NoWalk == [kind |-> "none", arg |-> <<>>, outcome |-> "none", result |-> <<>>]

Init ==
    /\ pc = "begin_site"
    /\ error = "none"
    /\ sorter \in {NoSorter} \cup Sorters
    /\ heap = <<>>
    /\ tags = Empty
    /\ methods = Empty
    /\ base_method = FALSE
    /\ meta_tags = <<>>
    /\ res_tags = <<>>
    /\ new_tag_list = <<>>
    /\ tagger = [set |-> FALSE, tags |-> Empty]
    /\ archive_config = {}
    /\ files = {}
    /\ walked = NoWalk

\* begin_site, lines 113-119
BeginSite ==
    /\ pc = "begin_site"
    /\ base_method' = TRUE
    /\ LET w == get_tagger_sort_method(sorter)
       IN  IF w.outcome = "ok"
             THEN pc' = "walker" /\ error' = error
             ELSE pc' = "failed" /\ error' = w.outcome
    /\ UNCHANGED <<sorter, heap, tags, methods, meta_tags, res_tags,
                   new_tag_list, tagger, archive_config, files, walked>>

\* line 120-121 and 150-156: the walker yields the next resource, which has
\* tag declarations or none
NextResource ==
    /\ pc = "walker"
    /\ Len(meta_tags) < MaxItems
    /\ \E has \in BOOLEAN :
         /\ meta_tags' = Append(meta_tags, [has |-> has, raw |-> has, tags |-> <<>>])
         /\ pc' = IF has THEN "taglist" ELSE "walker"
    /\ res_tags' = Append(res_tags, <<>>)
    /\ new_tag_list' = <<>>
    /\ UNCHANGED <<error, sorter, heap, tags, methods, base_method, tagger,
                   archive_config, files, walked>>

\* lines 157-179: the next declaration of the resource's taglist
ProcessTag ==
    /\ pc = "taglist"
    /\ Appended(heap) < MaxDecls
    /\ \E d \in Decls : \E key \in KeysOf(d) : \E ord \in RelationOrders(d, key) :
         LET r == process_tag(ScanState, resource, d, key, ord)
         IN  /\ heap' = r.heap
             /\ tags' = r.tags
             /\ methods' = r.methods
             /\ res_tags' = [res_tags EXCEPT ![resource] = r.rtags]
             /\ new_tag_list' = r.new_tag_list
             /\ IF r.outcome = "ok"
                  THEN pc' = pc /\ error' = error
                  ELSE pc' = "failed" /\ error' = r.outcome
    /\ UNCHANGED <<sorter, base_method, meta_tags, tagger, archive_config,
                   files, walked>>

\* line 181: the taglist is exhausted
EndTaglist ==
    /\ pc = "taglist"
    /\ meta_tags' = [meta_tags EXCEPT ![resource] =
                       [has |-> TRUE, raw |-> FALSE, tags |-> new_tag_list]]
    /\ new_tag_list' = <<>>
    /\ pc' = "walker"
    /\ UNCHANGED <<error, sorter, heap, tags, methods, base_method, res_tags,
                   tagger, archive_config, files, walked>>

\* lines 122-123: the walker is exhausted
ProcessTagMetadataOf(metas) ==
    /\ pc = "walker"
    /\ \E tag_meta \in metas : \E ord \in Orders(DOMAIN tag_meta) :
         heap' = process_tag_metadata(heap, tags, tag_meta, ord)
    /\ tagger' = [set |-> TRUE, tags |-> tags]
    /\ pc' = "generate_archives"
    /\ UNCHANGED <<error, sorter, tags, methods, base_method, meta_tags,
                   res_tags, new_tag_list, archive_config, files, walked>>

ProcessTagMetadata == ProcessTagMetadataOf(TagMetas)

\* the values of site.config.tagger.archives
ArchiveConfigs ==
    {[present |-> FALSE, archives |-> {}]}
    \cup {[present |-> TRUE, archives |-> c] :
             c \in {c \in SUBSET ArchiveSpecs : Cardinality(c) <= MaxArchives}}

\* _generate_archives, lines 187-196: the configuration has archives or not
GenerateArchivesOf(configs) ==
    /\ pc = "generate_archives"
    /\ \E c \in configs :
         /\ archive_config' = c.archives
         /\ pc' = IF c.archives = {} THEN "done" ELSE "archives"
    /\ UNCHANGED <<error, sorter, heap, tags, methods, base_method, meta_tags,
                   res_tags, new_tag_list, tagger, files, walked>>

GenerateArchives == GenerateArchivesOf(ArchiveConfigs)

\* _create_tag_archive on the next archive spec. Line 289 adds each file to
\* the content as a resource that has no meta.tags; the walkers skip such a
\* resource (line 80), and meta_tags does not list them.
CreateTagArchive ==
    /\ pc = "archives"
    /\ \E config \in archive_config :
         IF ~config.template
           THEN /\ pc' = "failed"
                /\ error' = "ConfigurationError"
                /\ UNCHANGED <<archive_config, files>>
           ELSE /\ files' = files \cup archive_files(config, tagger.tags)
                /\ archive_config' = archive_config \ {config}
                /\ pc' = IF archive_config' = {} THEN "done" ELSE "archives"
                /\ error' = error
    /\ UNCHANGED <<sorter, heap, tags, methods, base_method, meta_tags,
                   res_tags, new_tag_list, tagger, walked>>

\* the queries of the model: tag names joined by '+'
Queries == SeqsUpTo(Names, MaxQuery) \ {<<>>}

\* a template calls node.walk_resources_tagged_with(query); the call reads
\* the state and writes none of it, so one call from each final state of the
\* build reaches every outcome a later call can have
WalkQuery ==
    /\ pc = "done"
    /\ base_method
    /\ walked = NoWalk
    /\ \E q \in Queries :
         LET w == walk_resources_tagged_with(join(q))
         IN  walked' = [kind |-> "query", arg |-> q, outcome |-> w.outcome,
                        result |-> w.result]
    /\ UNCHANGED <<pc, error, sorter, heap, tags, methods, base_method,
                   meta_tags, res_tags, new_tag_list, tagger, archive_config,
                   files>>

\* a template calls node.walk_resources_tagged_with_<key>()
WalkTag ==
    /\ pc = "done"
    /\ walked = NoWalk
    /\ \E key \in DOMAIN methods :
         LET w == walk_method(key)
         IN  walked' = [kind |-> "tag", arg |-> <<key>>, outcome |-> w.outcome,
                        result |-> w.result]
    /\ UNCHANGED <<pc, error, sorter, heap, tags, methods, base_method,
                   meta_tags, res_tags, new_tag_list, tagger, archive_config,
                   files>>

\* begin_site, on any resources and any configuration
Next ==
    \/ BeginSite
    \/ NextResource
    \/ ProcessTag
    \/ EndTaglist
    \/ ProcessTagMetadata
    \/ GenerateArchives
    \/ CreateTagArchive

Spec == Init /\ [][Next]_vars

\* a configuration without tag metadata and without archives
ProcessNoTagMetadata == ProcessTagMetadataOf({Empty})

GenerateNoArchives ==
    GenerateArchivesOf({[present |-> FALSE, archives |-> {}]})

\* begin_site on any resources, and then the walker calls of the templates
NextWalk ==
    \/ BeginSite
    \/ NextResource
    \/ ProcessTag
    \/ EndTaglist
    \/ ProcessNoTagMetadata
    \/ GenerateNoArchives
    \/ WalkQuery
    \/ WalkTag

SpecWalk == Init /\ [][NextWalk]_vars

-----------------------------------------------------------------------------
(* The Tag class on its own: any sequence of constructor and relate_to_tag *)
(* calls, on any Tag objects and relation names.                           *)

\* the relation edges of a heap
RECURSIVE BucketSizes(_, _)
BucketSizes(relations, keys) ==
    IF keys = {} THEN 0
    ELSE LET k == CHOOSE k \in keys : TRUE
         IN  Len(relations[k]) + BucketSizes(relations, keys \ {k})

RECURSIVE EdgeCount(_)
EdgeCount(h) ==
    IF h = <<>> THEN 0
    ELSE BucketSizes(Head(h).out_relations, DOMAIN Head(h).out_relations)
         + EdgeCount(Tail(h))

HasEdge(h, a, b, r) ==
    r \in DOMAIN h[a].out_relations /\ b \in Range(h[a].out_relations[r])

\* Tag(name)
NewTag ==
    /\ pc = "begin_site"
    /\ Len(heap) < MaxTags
    /\ \E name \in Names : heap' = Append(heap, Tag(name))
    /\ UNCHANGED <<pc, error, sorter, tags, methods, base_method, meta_tags,
                   res_tags, new_tag_list, tagger, archive_config, files, walked>>

\* a.relate_to_tag(b, r)
RelateToTag ==
    /\ pc = "begin_site"
    /\ \E a \in 1..Len(heap), b \in 1..Len(heap), r \in Names :
         /\ EdgeCount(heap) < MaxEdges \/ HasEdge(heap, a, b, r)
         /\ heap' = relate_to_tag(heap, a, b, r)
    /\ UNCHANGED <<pc, error, sorter, tags, methods, base_method, meta_tags,
                   res_tags, new_tag_list, tagger, archive_config, files, walked>>

InitTag == Init /\ sorter = NoSorter

NextTag == NewTag \/ RelateToTag

SpecTag == InitTag /\ [][NextTag]_vars

-----------------------------------------------------------------------------
(* Properties *)

Items == [i \in 1..Len(meta_tags) |-> i]

\* the normalized tag names of resource i
TagSet(i) == IF meta_tags[i].has THEN Range(meta_tags[i].tags) ELSE {}

\* the tag names the resources declared
DeclaredNames == UNION {TagSet(i) : i \in 1..Len(meta_tags)}

\* the resources whose normalized tags hold every name of Q, in walker order
ItemsWithAll(Q) ==
    LET holds(i) == meta_tags[i].has /\ \A T \in Q : T \in TagSet(i)
    IN  SelectSeq(Items, holds)

\* C1: after a completed build, for every tag name T that some resource
\* declared, walk_resources_tagged_with_T exists and yields exactly the
\* resources whose normalized tags contain T, in walker order.
C1_TagWalkerYieldsItsTag ==
    pc = "done" =>
      \A T \in DeclaredNames :
        /\ T \in DOMAIN methods
        /\ (walked.kind = "tag" /\ walked.arg = <<T>>) =>
             (walked.outcome = "ok" /\ walked.result = ItemsWithAll({T}))

\* C2: walk_resources_tagged_with on a '+'-joined query naming the set Q
\* yields exactly the resources whose normalized tag set includes Q, in
\* walker order; resources without meta.tags are skipped without error.
C2_QueryYieldsSupersets ==
    walked.kind = "query" =>
      /\ walked.outcome = "ok"
      /\ walked.result = ItemsWithAll(Range(walked.arg))
      /\ \A i \in Range(walked.result) : meta_tags[i].has

\* C2 witness: a query of two different names has yielded a resource that
\* carries both and skipped a resource without meta.tags before it.
C2_Witness ==
    /\ walked.kind = "query"
    /\ Len(walked.arg) = 2
    /\ walked.arg[1] # walked.arg[2]
    /\ walked.result = <<2>>
    /\ ~meta_tags[1].has

HasInEdge(h, b, a, r) ==
    r \in DOMAIN h[b].in_relations /\ a \in Range(h[b].in_relations[r])

RelationNames(h) ==
    UNION {(DOMAIN h[i].in_relations) \cup (DOMAIN h[i].out_relations) :
             i \in 1..Len(h)}

NoDuplicates(relations) ==
    \A r \in DOMAIN relations :
      Cardinality(Range(relations[r])) = Len(relations[r])

ListForm(T, L) == Struct(Put(Empty, T, ListOf(L)))
MapForm(T, L) == Struct(Put(Empty, T, MapOf([r \in Range(L) |-> r])))

\* what processing the declaration d from the present state can lead to
Outcomes(d, key) ==
    {process_tag(ScanState, resource, d, key, ord) : ord \in RelationOrders(d, key)}

\* C4: from any state of the scan, processing {T: L} leads to the same
\* registry, relation edges and walkers as processing {T: {r: r for r in L}}.
C4_ListShorthandIsMapping ==
    pc = "taglist" =>
      \A T \in Names, L \in SeqsUpTo(Names, MaxList) :
        Outcomes(ListForm(T, L), T) = Outcomes(MapForm(T, L), T)

\* C4 witness: the scan has processed a declaration that gave one tag two
\* relations, each to the tag named like the relation.
C4_Witness ==
    /\ pc = "taglist"
    /\ \E i \in 1..Len(heap) :
         /\ Cardinality(DOMAIN heap[i].out_relations) = 2
         /\ \A r \in DOMAIN heap[i].out_relations :
              \A j \in Range(heap[i].out_relations[r]) : heap[j].name = r

MultiKey(d) == ~d.str /\ Cardinality(DOMAIN d.entries) > 1

\* C5: a structured declaration with more than one key, and no other, ends
\* the build in InvalidTagDeclaration at that declaration; the registry is
\* then never published and no archive file written.
C5_MultiKeyAborts ==
    /\ pc = "taglist" =>
         \A d \in Decls : \A key \in KeysOf(d) : \A ord \in RelationOrders(d, key) :
           LET r == process_tag(ScanState, resource, d, key, ord)
           IN  /\ (r.outcome = "InvalidTagDeclaration") <=> MultiKey(d)
               /\ r.outcome \in {"ok", "InvalidTagDeclaration"}
               /\ MultiKey(d) => (r.tags = tags /\ r.heap = heap)
    /\ error = "InvalidTagDeclaration" =>
         (pc = "failed" /\ ~tagger.set /\ files = {})

\* C5 witness: the build has failed on a declaration after the scan had
\* registered tags.
C5_Witness ==
    /\ error = "InvalidTagDeclaration"
    /\ pc = "failed"
    /\ DOMAIN tags # {}

\* C6: the metadata merge changes no Tag's name or resources and no Tag
\* other than those registered under an entry's name, sets every other key
\* of such an entry on that Tag, and leaves the registry keys alone.
C6_MetadataMergeFrame ==
    /\ pc = "walker" =>
         \A tag_meta \in TagMetas : \A ord \in Orders(DOMAIN tag_meta) :
           LET h2 == process_tag_metadata(heap, tags, tag_meta, ord)
               hit == {tags[k] : k \in (DOMAIN tags) \cap (DOMAIN tag_meta)}
           IN  /\ Len(h2) = Len(heap)
               /\ \A i \in 1..Len(heap) :
                    /\ h2[i].name = heap[i].name
                    /\ h2[i].resources = heap[i].resources
                    /\ i \notin hit => h2[i] = heap[i]
               /\ \A k \in (DOMAIN tags) \cap (DOMAIN tag_meta) :
                    \A key \in (DOMAIN tag_meta[k]) \ {"name", "resources"} :
                      /\ key \in DOMAIN h2[tags[k]].meta
                      /\ h2[tags[k]].meta[key] = tag_meta[k][key]
    /\ tagger.set =>
         /\ DOMAIN tagger.tags = DOMAIN tags
         /\ \A i \in 1..Len(heap) :
              /\ heap[i].name \in Names
              /\ \A x \in Range(heap[i].resources) : x \in 1..Len(meta_tags)

\* C6 witness: the merge has set color on a Tag that has resources.
C6_Witness ==
    /\ tagger.set
    /\ \E k \in DOMAIN tags :
         /\ "color" \in DOMAIN heap[tags[k]].meta
         /\ heap[tags[k]].resources # <<>>

\* C7: after a build that wrote archives, each archive spec has exactly one
\* file per key of the published registry, and the walker each file refers
\* to, walk_resources_tagged_with_<key>, has been added.
C7_ArchivePerTagWithWalker ==
    (pc = "done" /\ files # {}) =>
      /\ \A f \in files :
           {g.tag : g \in {g \in files : g.folder = f.folder
                                        /\ g.extension = f.extension}}
             = DOMAIN tagger.tags
      /\ \A f \in files : f.tag \in DOMAIN methods

\* C8: a configured sorter without its walk_resources_sorted_by_ method ends
\* the resolution in ConfigurationError and nothing else; without a
\* configured sorter no error is raised.
C8_MissingSorterIsConfigurationError ==
    /\ (sorter # NoSorter /\ ("walk_resources_sorted_by_" \o sorter) \notin ContentMethods
          /\ pc # "begin_site")
         => (pc = "failed" /\ error = "ConfigurationError")
    /\ sorter = NoSorter => get_tagger_sort_method(sorter).outcome = "ok"

\* the Tags the registry and the relation buckets refer to
Referred ==
    {tags[k] : k \in DOMAIN tags}
    \cup UNION {UNION {Range(heap[i].in_relations[r]) :
                         r \in DOMAIN heap[i].in_relations} : i \in 1..Len(heap)}
    \cup UNION {UNION {Range(heap[i].out_relations[r]) :
                         r \in DOMAIN heap[i].out_relations} : i \in 1..Len(heap)}

\* C9: every registry key maps to a Tag of that name, and the registry and
\* the relation buckets hold at most one Tag per name.
C9_RegistryKeyIsTagName ==
    /\ \A k \in DOMAIN tags : heap[tags[k]].name = k
    /\ \A i \in Referred, j \in Referred : heap[i].name = heap[j].name => i = j

\* the resources that declared T, once per declaration, in walker order
RECURSIVE Declarers(_, _)
Declarers(T, i) ==
    IF i > Len(meta_tags) THEN <<>>
    ELSE LET same(x) == x = T
             n == Len(SelectSeq(meta_tags[i].tags, same))
         IN  [k \in 1..n |-> i] \o Declarers(T, i + 1)

\* C10: after the build, the Tag registered under a declared name T has as
\* resources exactly the resources that declared T, in walker order, once
\* per declaration.
C10_ResourcesOfDeclaredTag ==
    pc = "done" =>
      \A T \in DeclaredNames :
        /\ T \in DOMAIN tags
        /\ heap[tags[T]].resources = Declarers(T, 1)

====
